---------------------------- MODULE Spec2Model ----------------------------
(* newmonkey: the decoder of one cache file (parse_cache_file) and the     *)
(* extraction pipeline over a directory (process_all_files), modelled from *)
(* src/src/newmonkey/parsing.py.                                           *)
(*                                                                         *)
(* Bytes are the integers 0..255, a buffer is a sequence of bytes, a text  *)
(* is the sequence of its code points.  Python's None and an optional      *)
(* value are the records None and Some(x).                                 *)
EXTENDS Integers, Sequences, FiniteSets, TLC

\* ------------------------------------------------------------------ bounds
\* Longest run of filler bytes that follows the end marker in a buffer.
MaxTrail == 1
\* Most entries of the input directory.
MaxFiles == 3
\* Most worker processes of the pool.
MaxWorkers == 2
\* Most entries of an input directory that is processed twice.
MaxRerunFiles == 2

\* --------------------------------------------------------------- constants
END_SUFFIX == <<65, 13, 151, 69, 111, 250, 244, 1, 0, 0, 0>>
START_SUFFIX == <<48, 92, 114, 167, 27, 109, 251, 252>>

\* Offsets of parse_cache_file: the length field, the base of data_start and
\* the first byte of the URL that is decoded.
LenFieldStart == 12
LenFieldEnd == 16
DataStartBase == 24
UrlStart == 28
\* maxsplit of origin_url.split("/", maxsplit=4) and the number of names the
\* unpacking binds before *_leftover.
MaxSplit == 4
MinParts == 4

\* "/" and the texts the code compares against or builds paths from.
Slash == 47
Dot == 46
TxtDiscord == <<100, 105, 115, 99, 111, 114, 100>>
TxtApi == <<97, 112, 105>>
TxtImage == <<105, 109, 97, 103, 101>>
TxtOther == <<111, 116, 104, 101, 114>>

None == [some |-> FALSE, val |-> <<>>]
Some(x) == [some |-> TRUE, val |-> x]

\* ----------------------------------------------------------------- helpers
Min(a, b) == IF a < b THEN a ELSE b
Max(a, b) == IF a > b THEN a ELSE b

\* Python's s[lo:hi] for 0 <= lo, 0 <= hi: the elements at the 0-based
\* offsets lo .. min(hi, len(s)) - 1.
PySlice(s, lo, hi) ==
    [k \in 1..Max(0, Min(hi, Len(s)) - lo) |-> s[lo + k]]

\* bytes.startswith(prefix)
StartsWith(s, prefix) == PySlice(s, 0, Len(prefix)) = prefix

\* int.from_bytes(b, byteorder="little")
RECURSIVE FromBytesLittle(_)
FromBytesLittle(b) ==
    IF b = <<>> THEN 0 ELSE b[1] + 256 * FromBytesLittle(Tail(b))

\* needle in hay (substring test of two texts)
Contains(hay, needle) ==
    \E i \in 0..(Len(hay) - Len(needle)) :
        PySlice(hay, i, i + Len(needle)) = needle

\* str.split(sep, maxsplit) for a one-character separator
RECURSIVE Split(_, _, _)
Split(s, sep, maxsplit) ==
    LET hits == {i \in 1..Len(s) : s[i] = sep} IN
    IF maxsplit = 0 \/ hits = {} THEN <<s>>
    ELSE LET i == CHOOSE j \in hits : \A k \in hits : j <= k IN
         <<SubSeq(s, 1, i - 1)>> \o Split(SubSeq(s, i + 1, Len(s)), sep, maxsplit - 1)

\* bytes.decode(): strict UTF-8.  Utf8Width is the length of the well-formed
\* sequence that starts b (0: none does), Utf8Point its code point.
IsCont(x) == 128 <= x /\ x <= 191
Utf8Width(b) ==
    IF b = <<>> THEN 0
    ELSE IF b[1] < 128 THEN 1
    ELSE IF 194 <= b[1] /\ b[1] <= 223
        THEN IF Len(b) >= 2 /\ IsCont(b[2]) THEN 2 ELSE 0
    ELSE IF 224 <= b[1] /\ b[1] <= 239
        THEN IF /\ Len(b) >= 3
                /\ IsCont(b[2]) /\ IsCont(b[3])
                /\ (b[1] = 224 => b[2] >= 160)
                /\ (b[1] = 237 => b[2] <= 159)
             THEN 3 ELSE 0
    ELSE IF 240 <= b[1] /\ b[1] <= 244
        THEN IF /\ Len(b) >= 4
                /\ IsCont(b[2]) /\ IsCont(b[3]) /\ IsCont(b[4])
                /\ (b[1] = 240 => b[2] >= 144)
                /\ (b[1] = 244 => b[2] <= 143)
             THEN 4 ELSE 0
    ELSE 0

Utf8Point(b, w) ==
    IF w = 1 THEN b[1]
    ELSE IF w = 2 THEN (b[1] - 192) * 64 + (b[2] - 128)
    ELSE IF w = 3 THEN (b[1] - 224) * 4096 + (b[2] - 128) * 64 + (b[3] - 128)
    ELSE (b[1] - 240) * 262144 + (b[2] - 128) * 4096 + (b[3] - 128) * 64 + (b[4] - 128)

RECURSIVE Utf8Decode(_)
Utf8Decode(b) ==
    IF b = <<>> THEN [ok |-> TRUE, text |-> <<>>]
    ELSE LET w == Utf8Width(b) IN
         IF w = 0 THEN [ok |-> FALSE, text |-> <<>>]
         ELSE LET rest == Utf8Decode(SubSeq(b, w + 1, Len(b))) IN
              IF rest.ok
              THEN [ok |-> TRUE, text |-> <<Utf8Point(b, w)>> \o rest.text]
              ELSE rest

\* The content-type sniffer magic.from_buffer(output, mime=True), an external
\* function of the payload: the PNG signature, a leading "<html", nothing;
\* and two signatures that stand for any two content types of which one
\* subtype is the other behind a dotted prefix (image/vnd.djvu, image/djvu).
SigPng == <<137, 80, 78, 71, 13, 10, 26, 10>>
SigHtml == <<60, 104, 116, 109, 108>>
MimePng == <<105, 109, 97, 103, 101, 47, 112, 110, 103>>
MimeHtml == <<116, 101, 120, 116, 47, 104, 116, 109, 108>>
MimeEmpty == <<97, 112, 112, 108, 105, 99, 97, 116, 105, 111, 110, 47,
               120, 45, 101, 109, 112, 116, 121>>
MimeOctet == <<97, 112, 112, 108, 105, 99, 97, 116, 105, 111, 110, 47,
               111, 99, 116, 101, 116, 45, 115, 116, 114, 101, 97, 109>>
SigDotted == <<65, 84, 38, 84>>
SigPlain == <<68, 74, 86>>
TxtDjvu == <<100, 106, 118, 117>>
TxtVnd == <<118, 110, 100>>
MimeDotted == TxtImage \o <<Slash>> \o TxtVnd \o <<Dot>> \o TxtDjvu
MimePlain == TxtImage \o <<Slash>> \o TxtDjvu
from_buffer(payload) ==
    IF payload = <<>> THEN MimeEmpty
    ELSE IF StartsWith(payload, SigPng) THEN MimePng
    ELSE IF StartsWith(payload, SigHtml) THEN MimeHtml
    ELSE IF StartsWith(payload, SigDotted) THEN MimeDotted
    ELSE IF StartsWith(payload, SigPlain) THEN MimePlain
    ELSE MimeOctet

\* ------------------------------------------------------- parse_cache_file
\* A result of a call: tag "ok" with the returned tuple, or the exception
\* class it raised (why: which raise statement).
Raised(cls, why) ==
    [tag |-> cls, why |-> why, payload |-> <<>>, domain |-> <<>>,
     kind |-> None, mime |-> <<>>]
Returned(payload, domain, kind, mime) ==
    [tag |-> "ok", why |-> "", payload |-> payload, domain |-> domain,
     kind |-> kind, mime |-> mime]

\* The loop's test: index + len(END_SUFFIX) < len(cache_file_data).
ScanGuard(data, index) == index + Len(END_SUFFIX) < Len(data)

\* ScanLoop with the current byte appended before the comparison's outcome is
\* looked at: the payload then ends with the marker's first byte.
RECURSIVE ScanLoopAppendsFirst(_, _, _)
ScanLoopAppendsFirst(data, index, acc) ==
    IF ~ScanGuard(data, index) THEN [found |-> FALSE, acc |-> acc]
    ELSE IF PySlice(data, index, index + Len(END_SUFFIX)) = END_SUFFIX
        THEN [found |-> TRUE, acc |-> Append(acc, data[index + 1])]
    ELSE ScanLoopAppendsFirst(data, index + 1, Append(acc, data[index + 1]))

\* The while loop that collects each byte until the end suffix is found.
RECURSIVE ScanLoop(_, _, _)
ScanLoop(data, index, acc) ==
    IF ~ScanGuard(data, index) THEN [found |-> FALSE, acc |-> acc]
    ELSE IF PySlice(data, index, index + Len(END_SUFFIX)) = END_SUFFIX
        THEN [found |-> TRUE, acc |-> acc]
    ELSE ScanLoop(data, index + 1, Append(acc, data[index + 1]))

\* offset and data_start
DataStart(data) ==
    DataStartBase + FromBytesLittle(PySlice(data, LenFieldStart, LenFieldEnd))

\* The bytes that are decoded as the origin URL.
UrlBytes(data) == PySlice(data, UrlStart, DataStart(data))

\* KindOf with "and" for "or".
KindOfAnd(domain, datakind) ==
    IF ~Contains(domain, TxtDiscord) /\ datakind = TxtApi
    THEN None ELSE Some(datakind)

\* datakind after "if 'discord' not in domain or datakind == 'api'".
KindOf(domain, datakind) ==
    IF ~Contains(domain, TxtDiscord) \/ datakind = TxtApi
    THEN None ELSE Some(datakind)

\* StartOk comparing one byte too few.
StartOkShort(data) ==
    StartsWith(data, SubSeq(START_SUFFIX, 1, Len(START_SUFFIX) - 1))

\* Whether the start prefix is accepted.
StartOk(data) == StartsWith(data, START_SUFFIX)

parse_cache_file(data) ==
    IF ~StartOk(data)
    THEN Raised("InvalidCacheFileFormat", "start")
    ELSE LET data_start == DataStart(data)
             dec == Utf8Decode(UrlBytes(data))
         IN
         IF ~dec.ok THEN Raised("UnicodeDecodeError", "decode")
         ELSE IF dec.text = <<>> THEN Raised("InvalidCacheFileFormat", "url")
         ELSE LET parts == Split(dec.text, Slash, MaxSplit) IN
              IF Len(parts) < MinParts THEN Raised("ValueError", "unpack")
              ELSE LET domain == parts[3]
                       datakind == KindOf(domain, parts[4])
                       scan == ScanLoop(data, data_start, <<>>)
                   IN
                   IF ~scan.found THEN Raised("InvalidCacheFileFormat", "end")
                   ELSE Returned(scan.acc, domain, datakind, from_buffer(scan.acc))

\* ------------------------------------------------------------- output tree
\* A path is the sequence of its components below the output root.
\* pathlib's "/" drops an empty component and a "." component.
PathJoin(path, seg) ==
    IF seg = <<>> \/ seg = <<Dot>> THEN path ELSE Append(path, seg)

\* What the operating system makes of a path: ".." steps to the parent; a
\* ".." that is left in the result steps out of the output root.
RECURSIVE Resolve(_)
Resolve(path) ==
    IF path = <<>> THEN <<>>
    ELSE LET up == Resolve(SubSeq(path, 1, Len(path) - 1))
             seg == path[Len(path)]
         IN IF seg = <<Dot, Dot>> /\ up # <<>> /\ up[Len(up)] # <<Dot, Dot>>
            THEN SubSeq(up, 1, Len(up) - 1)
            ELSE Append(up, seg)

Prefixes(path) == {SubSeq(path, 1, k) : k \in 1..Len(path)}

\* A file of the input directory: its name, whether it is a regular file,
\* whether it can be opened, its bytes.
File(name, regular, readable, content) ==
    [name |-> name, regular |-> regular, readable |-> readable,
     content |-> content]

open_and_parse_cache_file(file) ==
    IF ~file.readable THEN Raised("OSError", "open")
    ELSE parse_cache_file(file.content)

\* What a task hands back: the returned pair, or the exception it raised.
TaskReturn(domain, mime) == [tag |-> "ok", domain |-> domain, mime |-> mime]
TaskRaise(cls) == [tag |-> cls, domain |-> None, mime |-> None]

\* The effect of a task: what it hands back, the directories it creates and
\* the file it writes.
Effect(ret, mk, wr) == [ret |-> ret, mk |-> mk, wr |-> wr]

\* Included without the test of the category.
IncludedAlways(all_files, category) == TRUE

\* Whether the inclusion policy lets a category be written.
Included(all_files, category) == category = TxtImage \/ all_files

\* The directory a decoded record goes to.
CategoryPath(category, domain, kind) ==
    IF ~kind.some
    THEN PathJoin(PathJoin(PathJoin(<<>>, category), TxtOther), domain)
    ELSE PathJoin(PathJoin(<<>>, category), kind.val)

\* create_file_from_cache_file on an output tree with the directories ds and
\* the files fs (a function from paths to bytes).
create_file_from_cache_file(all_files, ds, fs, file) ==
    LET r == open_and_parse_cache_file(file) IN
    IF r.tag = "InvalidCacheFileFormat"
    THEN Effect(TaskReturn(None, None), {}, <<>>)
    ELSE IF r.tag # "ok" THEN Effect(TaskRaise(r.tag), {}, <<>>)
    ELSE LET mparts == Split(r.mime, Slash, -1) IN
         IF Len(mparts) # 2 THEN Effect(TaskRaise("ValueError"), {}, <<>>)
         ELSE LET category == mparts[1]
                  extension == mparts[2]
              IN
              IF ~Included(all_files, category)
              THEN Effect(TaskReturn(None, None), {}, <<>>)
              ELSE LET category_path == CategoryPath(category, r.domain, r.kind)
                       full_path == Resolve(PathJoin(category_path,
                                                     file.name \o <<Dot>> \o extension))
                       \* mkdir(parents=True) makes every directory on the way
                       made == {Resolve(p) : p \in Prefixes(category_path)} \ {<<>>}
                   IN
                   IF made \cap DOMAIN fs # {}
                   THEN Effect(TaskRaise("OSError"), {}, <<>>)
                   ELSE IF full_path \in ds \cup made
                   THEN Effect(TaskRaise("OSError"), made, <<>>)
                   ELSE Effect(TaskReturn(Some(r.domain), Some(r.mime)), made,
                               <<full_path, r.payload>>)

\* ---------------------------------------------------------- the statistics
\* dict_increment that does not count the first occurrence of a key.
dict_increment_skips_first(d, key) ==
    IF key \notin DOMAIN d THEN d @@ (key :> 0)
    ELSE [d EXCEPT ![key] = @ + 1]

\* dict_increment that keeps no bucket under the key None.
dict_increment_ignores_none(d, key) ==
    IF key = None THEN d
    ELSE LET d0 == IF key \notin DOMAIN d THEN d @@ (key :> 0) ELSE d IN
         [d0 EXCEPT ![key] = @ + 1]

dict_increment(d, key) ==
    LET d0 == IF key \notin DOMAIN d THEN d @@ (key :> 0) ELSE d IN
    [d0 EXCEPT ![key] = @ + 1]

\* sorted_count += mime_type is not None
SortedStep(mime) == IF mime.some THEN 1 ELSE 0

\* ------------------------------------------------------------------ inputs
\* A run of n zero bytes.
Zeros(n) == [k \in 1..n |-> 0]

\* int.to_bytes(4, "little")
ToBytesLittle4(n) ==
    <<n % 256, (n \div 256) % 256, (n \div 65536) % 256, (n \div 16777216) % 256>>

\* The record layout: start marker, zero padding to offset 12, the length
\* field, reserved padding to offset 28, URL, payload, end marker, trailer.
Layout(i) ==
    i.start \o Zeros(LenFieldStart - Len(i.start)) \o ToBytesLittle4(i.lenf)
    \o Zeros(UrlStart - LenFieldEnd) \o i.url \o i.payload \o i.marker \o i.trail

RECURSIVE JoinSlash(_)
JoinSlash(segs) ==
    IF Len(segs) = 1 THEN segs[1]
    ELSE segs[1] \o <<Slash>> \o JoinSlash(Tail(segs))

\* URL bytes: "h:" and "" followed by a domain, a fourth segment and perhaps
\* more; then URLs with too few segments, no URL, and bytes that are no text;
\* then URLs whose domain or fourth segment is ".." or ".".
SegScheme == <<104, 58>>
SegDomains ==
    { TxtDiscord,                                   \* discord
      <<97, 46>> \o TxtDiscord \o <<46, 98>>,       \* a.discord.b
      <<120, 46, 105, 111>>,                        \* x.io
      <<100, 105, 115, 99, 111, 114>>,              \* discor
      <<100, 195, 169>>,                            \* d, e-acute
      <<>> }
SegFourths == { TxtApi, <<97, 116, 116>>, <<97, 112, 105, 115>>, <<>> }
SegRests == { <<114>>, <<114, 47, 115, 47, 116>> }
UrlSet ==
    { JoinSlash(<<SegScheme, <<>>, d, f>>) : d \in SegDomains, f \in SegFourths }
    \cup { JoinSlash(<<SegScheme, <<>>, d, f, r>>) :
             d \in {TxtDiscord, <<120, 46, 105, 111>>},
             f \in {<<97, 116, 116>>, TxtApi}, r \in SegRests }
    \cup { <<97, 98, 99>>, <<97, 47, 98, 47, 99>>, <<97, 47, 98, 47, 99, 47, 100>>,
           <<>>, <<255, 47, 98, 47, 99, 47, 100>>, <<104, 47, 47, 120, 47, 195>> }
    \cup { JoinSlash(<<SegScheme, <<>>, TxtDiscord, <<Dot, Dot>>, <<114>> >>),
           JoinSlash(<<SegScheme, <<>>, <<Dot, Dot>>, <<97>> >>),
           JoinSlash(<<SegScheme, <<>>, <<Dot>>, <<97>> >>) }

PayloadSet ==
    { <<>>, <<1, 2>>, SigPng \o <<1>>, SigHtml \o <<62>>,
      <<5>> \o END_SUFFIX \o <<6>>, <<65, 13, 151>> }

\* A length field that points far beyond the end of the buffer (its fourth
\* byte is set).
BigLen == 16777216
LenSet(url) == { Len(url), Len(url) + 4, 4, BigLen }

MarkerSet == { END_SUFFIX, <<>>, SubSeq(END_SUFFIX, 1, Len(END_SUFFIX) - 1) }
TrailSet == { Zeros(n) : n \in 0..MaxTrail }

BadStart == [START_SUFFIX EXCEPT ![Len(START_SUFFIX)] = 0]

Input(start, lenf, url, payload, marker, trail) ==
    [start |-> start, lenf |-> lenf, url |-> url, payload |-> payload,
     marker |-> marker, trail |-> trail]

\* The record with the URL url whose length field is the URL's length plus 4
\* (the first byte the decoder decodes is at offset 28, the field counts from
\* offset 24), with one trailing byte.
Wellformed(url, payload) ==
    Input(START_SUFFIX, Len(url) + 4, url, payload, END_SUFFIX, Zeros(1))

\* Truncated buffers: the first n bytes of a record.
CutSet(i) ==
    IF i = Wellformed(JoinSlash(<<SegScheme, <<>>, TxtDiscord, TxtApi>>), <<1, 2>>)
    THEN {PySlice(Layout(i), 0, n) : n \in {0, 3, 7, 8, 14, 28}}
    ELSE {}

Inputs ==
    UNION { { Input(START_SUFFIX, l, u, p, m, t) :
                l \in LenSet(u), p \in PayloadSet, m \in MarkerSet, t \in TrailSet }
            : u \in UrlSet }
    \cup { Input(s, Len(u) + 4, u, p, END_SUFFIX, Zeros(1)) :
             s \in {BadStart, Zeros(Len(START_SUFFIX)), Tail(START_SUFFIX) \o <<0>>},
             u \in {JoinSlash(<<SegScheme, <<>>, TxtDiscord, <<97, 116, 116>> >>)},
             p \in {<<1, 2>>, SigPng \o <<1>>} }

\* The input directory of the pipeline: each entry is one of these kinds.
UrlExternal == JoinSlash(<<SegScheme, <<>>, <<120, 46, 105, 111>>, <<97>>, <<98>> >>)
UrlDiscord == JoinSlash(<<SegScheme, <<>>, TxtDiscord, <<97, 116, 116>>, <<98>> >>)
EntryKinds == {"png", "html", "badstart", "shorturl", "unreadable", "dir"}
ContentOf(kind) ==
    CASE kind = "png" -> Layout(Wellformed(UrlExternal, SigPng \o <<1>>))
      [] kind = "html" -> Layout(Wellformed(UrlDiscord, SigHtml \o <<62>>))
      [] kind = "badstart" ->
            Layout(Input(BadStart, Len(UrlExternal) + 4, UrlExternal,
                         SigPng \o <<1>>, END_SUFFIX, Zeros(1)))
      [] kind = "shorturl" -> Layout(Wellformed(<<97, 98, 99>>, SigPng \o <<1>>))
      [] kind = "unreadable" -> Layout(Wellformed(UrlExternal, SigPng \o <<1>>))
      [] kind = "dotted" -> Layout(Wellformed(UrlExternal, SigDotted \o <<1>>))
      [] kind = "twin" -> Layout(Wellformed(UrlExternal, SigPlain \o <<2>>))
      [] OTHER -> <<>>

\* Directories whose file names may hold a dot: a "dotted" entry is a record
\* sniffed image/vnd.djvu, a "twin" entry is a record sniffed image/djvu whose
\* name is the name of the entry listed before it followed by ".vnd".
NameKinds == {"png", "dotted", "twin", "dir"}

\* The name of the i-th entry of the listing: "f" and a digit.
NameOf(i) == <<102, 48 + i>>
FileOf(kind, i) ==
    File(IF kind = "twin" THEN NameOf(i - 1) \o <<Dot>> \o TxtVnd ELSE NameOf(i),
         kind # "dir", kind # "unreadable", ContentOf(kind))

\* ------------------------------------------------------------------- state
VARIABLES
    inp,            \* the parts the buffer under test is built from
    data,           \* the buffer under test
    result,         \* what parse_cache_file(data) gave
    entries,        \* the kinds of the directory's entries, in listing order
    dir_ok,         \* whether os.listdir succeeds
    all_files,      \* the --all-files flag
    cpu,            \* cpu_core_to_use
    pc,             \* where process_all_files (or the single-buffer run) is
    error,          \* the exception that left process_all_files, or "none"
    files_count,    \* len(files)
    fed,            \* entries the task generator has gone through
    running,        \* entries (by position) a worker is processing
    outq,           \* task results not yet consumed, in completion order
    enum_count,     \* the counter of enumerate(results)
    index,
    sorted_count,
    types,
    domains,
    dirs,           \* directories below the output root
    out_files,      \* files below the output root: path -> bytes
    report,         \* the two counts the final report prints
    runs            \* how many times process_all_files was called

vars == <<inp, data, result, entries, dir_ok, all_files, cpu, pc, error,
          files_count, fed, running, outq, enum_count, index, sorted_count,
          types, domains, dirs, out_files, report, runs>>

NoInput == Input(<<>>, 0, <<>>, <<>>, <<>>, <<>>)
NotRun == Raised("none", "")
NoReport == [not_exported |-> 0, ignored |-> 0]

\* The locals of process_all_files before the pool is created, in the first
\* call, on an empty output tree.
InitRun ==
    /\ runs = 1
    /\ error = "none"
    /\ files_count = 0
    /\ fed = 0
    /\ running = {}
    /\ outq = <<>>
    /\ enum_count = 0
    /\ index = 0
    /\ sorted_count = 0
    /\ types = <<>>
    /\ domains = <<>>
    /\ dirs = {}
    /\ out_files = <<>>
    /\ report = NoReport
    /\ result = NotRun

\* The effect of a task on the output tree and the result queue.
ApplyEffect(e) ==
    /\ dirs' = dirs \cup e.mk
    /\ out_files' = IF e.wr = <<>> THEN out_files
                    ELSE [p \in DOMAIN out_files \cup {e.wr[1]} |->
                            IF p = e.wr[1] THEN e.wr[2] ELSE out_files[p]]
    /\ outq' = Append(outq, e.ret)

\* One pass of "for index, (domain, mime_type) in enumerate(results)": a
\* result that is an exception is raised again by the iterator and leaves
\* process_all_files through the with block, which terminates the pool.
ConsumeHead(then) ==
    LET r == Head(outq) IN
    IF r.tag = "ok"
    THEN /\ index' = enum_count
         /\ enum_count' = enum_count + 1
         /\ sorted_count' = sorted_count + SortedStep(r.mime)
         /\ types' = dict_increment(types, r.mime)
         /\ domains' = dict_increment(domains, r.domain)
         /\ outq' = Tail(outq)
         /\ pc' = then
         /\ UNCHANGED <<error, running>>
    ELSE /\ pc' = "raised"
         /\ error' = r.tag
         /\ running' = {}
         /\ outq' = <<>>
         /\ UNCHANGED <<index, enum_count, sorted_count, types, domains>>

\* -------------------------------------------- one buffer through the calls
DecInit ==
    /\ inp \in Inputs
    /\ data \in {Layout(inp)} \cup CutSet(inp)
    /\ all_files \in BOOLEAN
    /\ entries = <<>>
    /\ dir_ok = TRUE
    /\ cpu = 1
    /\ pc = "parse"
    /\ InitRun

\* parse_cache_file(data)
DecParse ==
    /\ pc = "parse"
    /\ result' = parse_cache_file(data)
    /\ pc' = "place"
    /\ UNCHANGED <<runs, inp, data, entries, dir_ok, all_files, cpu, error, files_count,
                   fed, running, outq, enum_count, index, sorted_count, types,
                   domains, dirs, out_files, report>>

\* create_file_from_cache_file(all_files, root, path of data)
DecPlace ==
    /\ pc = "place"
    /\ ApplyEffect(create_file_from_cache_file(all_files, dirs, out_files,
                                               File(NameOf(1), TRUE, TRUE, data)))
    /\ pc' = "consume"
    /\ UNCHANGED <<runs, inp, data, result, entries, dir_ok, all_files, cpu, error,
                   files_count, fed, running, enum_count, index, sorted_count,
                   types, domains, report>>

\* the loop body of process_all_files on that one result
DecConsume ==
    /\ pc = "consume"
    /\ ConsumeHead("done")
    /\ UNCHANGED <<runs, inp, data, result, entries, dir_ok, all_files, cpu,
                   files_count, fed, dirs, out_files, report>>

DecNext == DecParse \/ DecPlace \/ DecConsume

DecSpec == DecInit /\ [][DecNext]_vars

\* ------------------------------------------------------ process_all_files
\* All directories of at most n entries.
RECURSIVE Listings(_)
Listings(n) ==
    IF n = 0 THEN {<<>>}
    ELSE Listings(n - 1)
         \cup {Append(l, k) : l \in {m \in Listings(n - 1) : Len(m) = n - 1},
                              k \in EntryKinds}

Init ==
    /\ dir_ok \in BOOLEAN
    /\ entries \in Listings(MaxFiles)
    /\ all_files \in BOOLEAN
    /\ cpu \in 1..MaxWorkers
    /\ inp = NoInput
    /\ data = <<>>
    /\ pc = "listdir"
    /\ InitRun

\* A listing whose failure is passed over: the run goes on to the pool.
ListDirIgnoresFailure ==
    /\ pc = "listdir"
    /\ files_count' = Len(entries)
    /\ pc' = "pool"
    /\ UNCHANGED <<runs, inp, data, result, entries, dir_ok, all_files, cpu, error, fed,
                   running, outq, enum_count, index, sorted_count, types, domains,
                   dirs, out_files, report>>

\* files = os.listdir(discord_cache_directory); files_count = len(files)
ListDir ==
    /\ pc = "listdir"
    /\ IF dir_ok
       THEN /\ files_count' = Len(entries)
            /\ pc' = "pool"
            /\ error' = error
       ELSE /\ files_count' = files_count
            /\ pc' = "raised"
            /\ error' = "OSError"
    /\ UNCHANGED <<runs, inp, data, result, entries, dir_ok, all_files, cpu, fed, running,
                   outq, enum_count, index, sorted_count, types, domains, dirs,
                   out_files, report>>

\* The generator handed to imap_unordered passes over an entry that
\* is_file() rejects.
SkipEntry ==
    /\ pc = "pool"
    /\ fed < Len(entries)
    /\ ~FileOf(entries[fed + 1], fed + 1).regular
    /\ fed' = fed + 1
    /\ UNCHANGED <<runs, inp, data, result, entries, dir_ok, all_files, cpu, pc, error,
                   files_count, running, outq, enum_count, index, sorted_count,
                   types, domains, dirs, out_files, report>>

\* A free worker of the pool takes the next regular file.
StartTask ==
    /\ pc = "pool"
    /\ fed < Len(entries)
    /\ FileOf(entries[fed + 1], fed + 1).regular
    /\ Cardinality(running) < cpu
    /\ fed' = fed + 1
    /\ running' = running \cup {fed + 1}
    /\ UNCHANGED <<runs, inp, data, result, entries, dir_ok, all_files, cpu, pc, error,
                   files_count, outq, enum_count, index, sorted_count, types,
                   domains, dirs, out_files, report>>

\* A worker runs create_file_from_cache_file on its file and hands back the
\* result.
FinishTask(i) ==
    /\ pc = "pool"
    /\ i \in running
    /\ ApplyEffect(create_file_from_cache_file(all_files, dirs, out_files,
                                               FileOf(entries[i], i)))
    /\ running' = running \ {i}
    /\ UNCHANGED <<runs, inp, data, result, entries, dir_ok, all_files, cpu, pc, error,
                   files_count, fed, enum_count, index, sorted_count, types,
                   domains, report>>

\* The coordinator takes the next completed result.
Consume ==
    /\ pc = "pool"
    /\ outq # <<>>
    /\ ConsumeHead("pool")
    /\ UNCHANGED <<runs, inp, data, result, entries, dir_ok, all_files, cpu,
                   files_count, fed, dirs, out_files, report>>

\* The results are exhausted: the pool is closed and the report is printed.
Report ==
    /\ pc = "pool"
    /\ fed = Len(entries)
    /\ running = {}
    /\ outq = <<>>
    /\ pc' = "report"
    /\ report' = [not_exported |-> files_count - sorted_count,
                  ignored |-> files_count - index]
    /\ UNCHANGED <<runs, inp, data, result, entries, dir_ok, all_files, cpu, error,
                   files_count, fed, running, outq, enum_count, index,
                   sorted_count, types, domains, dirs, out_files>>

Next ==
    \/ ListDir
    \/ SkipEntry
    \/ StartTask
    \/ \E i \in 1..MaxFiles : FinishTask(i)
    \/ Consume
    \/ Report

Spec == Init /\ [][Next]_vars

\* ------------------------------------------------ a second call on the tree
\* What a task that is stopped on its way leaves of its effect e on the tree
\* with the directories ds and the files fs: nothing, its directories, its
\* directories and the file as touch() makes it, or all of it.
Stages == {"none", "mkdir", "touch", "write"}
PartialDirs(e, stage) == IF stage = "none" THEN {} ELSE e.mk
PartialFile(e, stage, fs) ==
    IF e.wr = <<>> \/ stage \in {"none", "mkdir"} THEN <<>>
    ELSE IF stage = "write" THEN e.wr
    ELSE <<e.wr[1], IF e.wr[1] \in DOMAIN fs THEN fs[e.wr[1]] ELSE <<>> >>

\* process_all_files is called again with the same arguments on the output
\* tree the first call left: after its report, after its exception, or after
\* it was interrupted while tasks were under way.
Rerun ==
    /\ runs = 1
    /\ pc \in {"pool", "report", "raised"}
    /\ \E st \in [running -> Stages] :
         LET e(i) == create_file_from_cache_file(all_files, dirs, out_files,
                                                 FileOf(entries[i], i))
             left == {PartialFile(e(i), st[i], out_files) : i \in running} \ {<<>>}
         IN
         /\ dirs' = dirs \cup UNION {PartialDirs(e(i), st[i]) : i \in running}
         /\ out_files' = [p \in DOMAIN out_files \cup {w[1] : w \in left} |->
                            IF \E w \in left : w[1] = p
                            THEN (CHOOSE w \in left : w[1] = p)[2]
                            ELSE out_files[p]]
    /\ runs' = 2
    /\ pc' = "listdir"
    /\ error' = "none"
    /\ files_count' = 0
    /\ fed' = 0
    /\ running' = {}
    /\ outq' = <<>>
    /\ enum_count' = 0
    /\ index' = 0
    /\ sorted_count' = 0
    /\ types' = <<>>
    /\ domains' = <<>>
    /\ report' = NoReport
    /\ UNCHANGED <<inp, data, result, entries, dir_ok, all_files, cpu>>

RerunInit ==
    /\ dir_ok = TRUE
    /\ entries \in Listings(MaxRerunFiles)
    /\ all_files \in BOOLEAN
    /\ cpu \in 1..MaxWorkers
    /\ inp = NoInput
    /\ data = <<>>
    /\ pc = "listdir"
    /\ InitRun

RerunNext == Next \/ Rerun

RerunSpec == RerunInit /\ [][RerunNext]_vars

\* The pipeline over directories whose file names may hold a dot.
NameInit ==
    /\ dir_ok = TRUE
    /\ entries \in UNION {[1..n -> NameKinds] : n \in 0..MaxFiles}
    /\ all_files \in BOOLEAN
    /\ cpu \in 1..MaxWorkers
    /\ inp = NoInput
    /\ data = <<>>
    /\ pc = "listdir"
    /\ InitRun

NameSpec == NameInit /\ [][Next]_vars

\* ------------------------------------------------------------------ claims
\* Whether the end marker starts at the 0-based offset i of buffer b.
MarkerAt(b, i) == PySlice(b, i, i + Len(END_SUFFIX)) = END_SUFFIX
\* The '/'-delimited segments of the text that the bytes u encode.
Segments(u) == Split(Utf8Decode(u).text, Slash, -1)
\* parse_cache_file has been applied to data and result holds what it gave.
Parsed == pc \in {"place", "consume", "done", "raised"} /\ result # NotRun

\* The buffer of the round trip: valid start marker, the length field equal
\* to the length of the URL, a URL text of at least four segments, a payload
\* without the end marker, the end marker and nothing after it.
C1_Case ==
    /\ data = Layout(inp)
    /\ inp.start = START_SUFFIX
    /\ inp.lenf = Len(inp.url)
    /\ Utf8Decode(inp.url).ok
    /\ Len(Segments(inp.url)) >= 4
    /\ ~Contains(inp.payload, END_SUFFIX)
    /\ inp.marker = END_SUFFIX
    /\ inp.trail = <<>>

\* C1: decoding the buffer startMarker + padding + urlLength + padding + URL
\* + payload + endMarker gives back the payload exactly and the URL's third
\* segment as the domain.
C1_RoundTrip ==
    (Parsed /\ C1_Case) =>
        /\ result.tag = "ok"
        /\ result.payload = inp.payload
        /\ result.domain = Segments(inp.url)[3]

\* C2: a buffer whose first 8 bytes are not the start marker fails with the
\* format error; nothing is created or written for it and the decoded count
\* is not incremented.
C2_BadStartFails ==
    (PySlice(data, 0, 8) # START_SUFFIX) =>
        /\ Parsed => (result.tag = "InvalidCacheFileFormat" /\ result.why = "start")
        /\ dirs = {}
        /\ out_files = <<>>
        /\ sorted_count = 0
        /\ error = "none"
        /\ \A k \in 1..Len(outq) : outq[k] = TaskReturn(None, None)
        /\ pc # "raised"

C2_Witness ==
    /\ pc = "done"
    /\ inp.start = BadStart
    /\ inp.payload = SigPng \o <<1>>
    /\ all_files
    /\ result.tag = "InvalidCacheFileFormat"
    /\ enum_count = 1

\* A valid start marker and a non-empty origin URL of at least four segments.
C3_Case ==
    /\ PySlice(data, 0, 8) = START_SUFFIX
    /\ Utf8Decode(UrlBytes(data)).ok
    /\ UrlBytes(data) # <<>>
    /\ Len(Segments(UrlBytes(data))) >= 4

\* C3: with a valid start marker and a well-formed URL, decoding fails with
\* the missing-end-marker error exactly when the end marker lies at no offset
\* i with dataStart <= i and i + 11 <= len(buffer).
C3_EndMarkerIff ==
    (Parsed /\ C3_Case) =>
        LET dataStart == 24 + FromBytesLittle(PySlice(data, 12, 16)) IN
        ((result.tag = "InvalidCacheFileFormat" /\ result.why = "end")
         <=> ~\E i \in dataStart..(Len(data) - 11) : MarkerAt(data, i))

\* C4: on success the payload is buffer[dataStart : m], m the smallest
\* offset >= dataStart where the end marker starts.
C4_PayloadIsSlice ==
    (Parsed /\ result.tag = "ok") =>
        LET dataStart == 24 + FromBytesLittle(PySlice(data, 12, 16)) IN
        \E m \in dataStart..(Len(data) - 11) :
            /\ MarkerAt(data, m)
            /\ \A j \in dataStart..(m - 1) : ~MarkerAt(data, j)
            /\ result.payload = PySlice(data, dataStart, m)

C4_Witness ==
    /\ Parsed
    /\ result.tag = "ok"
    /\ inp.payload = <<5>> \o END_SUFFIX \o <<6>>
    /\ inp.lenf = Len(inp.url) + 4
    /\ result.payload = <<5>>

\* C5: on success kind is none when the domain lacks "discord" or the fourth
\* segment is "api", and the fourth segment otherwise.
C5_KindRule ==
    (Parsed /\ result.tag = "ok") =>
        LET segs == Segments(UrlBytes(data)) IN
        IF ~Contains(segs[3], TxtDiscord) \/ segs[4] = TxtApi
        THEN result.kind = None
        ELSE result.kind = Some(segs[4])

C5_Witness ==
    /\ Parsed
    /\ result.tag = "ok"
    /\ Len(Segments(UrlBytes(data))) > 4
    /\ result.kind = Some(<<97, 116, 116>>)

\* C6: the decoder returns a record or fails with the format error, and with
\* no other error.
C6_OnlyFormatError ==
    Parsed => result.tag \in {"ok", "InvalidCacheFileFormat"}

\* The positions of the directory's regular files.
Regular == {i \in 1..Len(entries) : FileOf(entries[i], i).regular}
\* What the task of the i-th entry hands back, as a function of the file's
\* bytes and of the flag alone.
Outcome(i) ==
    create_file_from_cache_file(all_files, {}, <<>>, FileOf(entries[i], i)).ret

\* C7: when the listing succeeds no file's failure ends the run: the run
\* never leaves process_all_files with an exception, and it ends in the
\* final report with the outcome of every regular file consumed, whatever
\* the files hold.
C7_EveryFileTerminal ==
    dir_ok =>
        /\ pc # "raised"
        /\ pc = "report" => enum_count = Cardinality(Regular)

\* C8: a file that cannot be opened or read yields the Failed outcome like a
\* format error: its error does not leave the task.
C8_ReadFailureContained ==
    /\ \A k \in 1..Len(outq) : outq[k].tag # "OSError"
    /\ dir_ok => error # "OSError"

\* C9: the final statistics are the counts of the files' outcomes, whatever
\* the order in which results complete and are consumed and whatever the
\* number of workers.
C9_StatsOrderIndependent ==
    pc = "report" =>
        /\ enum_count = Cardinality(Regular)
        /\ files_count = Len(entries)
        /\ sorted_count = Cardinality({i \in Regular : Outcome(i).mime.some})
        /\ DOMAIN types = {Outcome(i).mime : i \in Regular}
        /\ \A k \in DOMAIN types :
             types[k] = Cardinality({i \in Regular : Outcome(i).mime = k})
        /\ DOMAIN domains = {Outcome(i).domain : i \in Regular}
        /\ \A k \in DOMAIN domains :
             domains[k] = Cardinality({i \in Regular : Outcome(i).domain = k})

C9_Witness ==
    /\ pc = "report"
    /\ cpu = 2
    /\ Len(entries) = 3
    /\ Cardinality(DOMAIN types) = 3
    /\ sorted_count = 2

\* The directory of three files: one image/png record, one text/html record,
\* one file with a corrupted start marker.
C10_Scenario ==
    /\ Len(entries) = 3
    /\ {entries[i] : i \in 1..3} = {"png", "html", "badstart"}

\* Whether the i-th entry decodes to a record of category image.
DecodesToImage(i) ==
    LET r == open_and_parse_cache_file(FileOf(entries[i], i)) IN
    r.tag = "ok" /\ Split(r.mime, Slash, -1)[1] = TxtImage

\* C10 as stated: the three-file run ends with decodedCount = 2 and
\* totalEnumerated = 3, with one file written when allFiles is false and two
\* when it is true.
C10_FilteredCounted ==
    (pc = "report" /\ C10_Scenario) =>
        /\ Cardinality(DOMAIN out_files) = (IF all_files THEN 2 ELSE 1)
        /\ sorted_count = 2
        /\ enum_count = 3
        /\ files_count = 3

\* C10 amended: with allFiles false a decoded record that is not an image is
\* not written and does not count as decoded; the three-file run ends with
\* one file written and decodedCount = 1 when allFiles is false, two files
\* written and decodedCount = 2 when it is true, totalEnumerated = 3 in both.
C10_FilteredNotCounted ==
    /\ (pc = "report" /\ ~all_files) =>
         /\ \A p \in DOMAIN out_files : p[1] = TxtImage
         /\ sorted_count = Cardinality({i \in Regular : DecodesToImage(i)})
    /\ (pc = "report" /\ C10_Scenario) =>
         /\ Cardinality(DOMAIN out_files) = (IF all_files THEN 2 ELSE 1)
         /\ sorted_count = (IF all_files THEN 2 ELSE 1)
         /\ enum_count = 3
         /\ files_count = 3

C10_Witness ==
    /\ pc = "report"
    /\ C10_Scenario
    /\ ~all_files
    /\ sorted_count = 1
    /\ Cardinality(DOMAIN out_files) = 1

\* C11: entries that are not regular files make no task and no outcome and
\* are counted nowhere: the total the run reports is the number of outcomes
\* consumed, and the figure reported as not exported is that total less the
\* decoded count, whatever the mix of regular and other entries.
C11_NonRegularUncounted ==
    pc = "report" =>
        /\ enum_count = Cardinality(Regular)
        /\ files_count = enum_count
        /\ report.not_exported = enum_count - sorted_count

\* What decoding the i-th entry gives.
Decoded(i) == open_and_parse_cache_file(FileOf(entries[i], i))
\* The entries handed to a task so far that decode and whose category is
\* image or is let through by allFiles, each with its decoded record and the
\* parts of its MIME type.
PassedPolicy ==
    LET handed == { [i |-> i, r |-> Decoded(i)] : i \in {j \in Regular : j <= fed} }
        decoded == { [i |-> x.i, r |-> x.r, m |-> Split(x.r.mime, Slash, -1)] :
                     x \in {y \in handed : y.r.tag = "ok"} }
    IN {x \in decoded : x.m[1] = TxtImage \/ all_files}

\* C12: every file of the output tree was decoded from an input file whose
\* category passed the inclusion policy and holds that file's payload under
\* that file's name; every directory of the tree was made for such a file.
\* A file that fails to decode or is excluded makes no directory and no file.
C12_OnlyDecodedIncluded ==
    (out_files # <<>> \/ dirs # {}) =>
        LET passed == PassedPolicy IN
        /\ \A p \in DOMAIN out_files :
             \E x \in passed :
                /\ out_files[p] = x.r.payload
                /\ p[Len(p)] = FileOf(entries[x.i], x.i).name \o <<Dot>> \o x.m[2]
        /\ \A d \in dirs : \E x \in passed : d[1] = x.m[1]

C12_Witness ==
    /\ pc = "report"
    /\ ~all_files
    /\ {"png", "html", "badstart"} \subseteq {entries[i] : i \in 1..Len(entries)}
    /\ enum_count = 3
    /\ Cardinality(DOMAIN out_files) = 1
    /\ dirs # {}

\* C14: when listing the input directory fails the failure leaves
\* process_all_files at once: no pool is made, no task is started, no result
\* is consumed, no file is read and nothing is written to the output tree.
C14_ListingFailureFirst ==
    ~dir_ok =>
        /\ pc \in {"listdir", "raised"}
        /\ pc = "raised" => error = "OSError"
        /\ fed = 0
        /\ running = {}
        /\ outq = <<>>
        /\ enum_count = 0
        /\ dirs = {}
        /\ out_files = <<>>

C14_Witness ==
    /\ ~dir_ok
    /\ pc = "raised"
    /\ error = "OSError"
    /\ Regular # {}

\* C15: whenever parse_cache_file succeeds the domain it returns is not the
\* empty text.
C15_DomainNonEmpty ==
    (Parsed /\ result.tag = "ok") => result.domain # <<>>

\* The sum of the counts that the mapping d holds under the keys.
RECURSIVE SumOver(_, _)
SumOver(d, keys) ==
    IF keys = {} THEN 0
    ELSE LET k == CHOOSE x \in keys : TRUE IN d[k] + SumOver(d, keys \ {k})

\* C16 as stated: no bucket exists for a failed or an excluded file, and the
\* counts of each mapping sum to the number of decoded outcomes.
C16_NoBucketForFailed ==
    /\ None \notin DOMAIN types
    /\ None \notin DOMAIN domains
    /\ SumOver(types, DOMAIN types) = sorted_count
    /\ SumOver(domains, DOMAIN domains) = sorted_count

\* C16 amended: a failed or an excluded outcome adds one to the None bucket
\* of both mappings and to no other bucket: at every point the buckets other
\* than None sum to the number of decoded outcomes consumed, and the None
\* bucket exists exactly when an outcome that is not decoded was consumed
\* and counts those outcomes.
C16_NoneBucketCounts ==
    /\ SumOver(types, DOMAIN types \ {None}) = sorted_count
    /\ SumOver(domains, DOMAIN domains \ {None}) = sorted_count
    /\ None \in DOMAIN types <=> enum_count > sorted_count
    /\ None \in DOMAIN domains <=> enum_count > sorted_count
    /\ None \in DOMAIN types => types[None] = enum_count - sorted_count
    /\ None \in DOMAIN domains => domains[None] = enum_count - sorted_count

C16_Witness ==
    /\ pc = "report"
    /\ None \in DOMAIN types
    /\ types[None] = 2
    /\ domains[None] = 2
    /\ sorted_count = 1

\* C17: at every point the total is the number of outcomes consumed so far,
\* the decoded count is the number of decoded outcomes among them, and the
\* decoded count is at most the total.
C17_CountersTrack ==
    /\ index = enum_count
    /\ sorted_count = SumOver(types, DOMAIN types \ {None})
    /\ sorted_count <= index

\* C20: the number reported as ignored is the number of entries that are not
\* regular files, which is the size of the listing less the number of
\* results consumed; also for an empty directory, for a directory of regular
\* files only and for a directory of one regular file.
C20_IgnoredIsNonRegular ==
    pc = "report" =>
        /\ report.ignored = Len(entries) - Cardinality(Regular)
        /\ report.ignored = files_count - enum_count

\* C19: a decoded record that is written lies inside the output root, in the
\* directory <category>/<kind> when kind is set and <category>/other/<domain>
\* otherwise, under the name <originalName>.<subtype>: no value of kind or of
\* domain moves it to another directory.  (An empty or "." segment names the
\* directory it is appended to, so it is left out of the comparison.)
C19_ExactPlacement ==
    (pc \in {"consume", "done"} /\ out_files # <<>>) =>
        LET m == Split(result.mime, Slash, -1)
            leaf == NameOf(1) \o <<Dot>> \o m[2]
            named == IF result.kind.some
                     THEN <<m[1], result.kind.val, leaf>>
                     ELSE <<m[1], TxtOther, result.domain, leaf>>
            here == SelectSeq(named, LAMBDA c : c # <<>> /\ c # <<Dot>>)
        IN
        /\ DOMAIN out_files = {here}
        /\ \A k \in 1..Len(here) : here[k] # <<Dot, Dot>>

\* The output path that the task of the i-th entry writes, <<>> if it writes
\* none.
Destination(i) ==
    LET wr == create_file_from_cache_file(all_files, {}, <<>>,
                                          FileOf(entries[i], i)).wr
    IN IF wr = <<>> THEN <<>> ELSE wr[1]

\* C18: two distinct files of the input directory are never written to the
\* same output path, whatever their names, sniffed types, kinds and domains:
\* every written file belongs to exactly one decoded outcome, so that at the
\* end of a run there are as many output files as decoded outcomes.
C18_DistinctDestinations ==
    /\ \A i, j \in Regular :
         (i # j /\ Destination(i) # <<>>) => Destination(i) # Destination(j)
    /\ pc = "report" => Cardinality(DOMAIN out_files) = sorted_count

\* What the task of the i-th entry does to an empty output tree.
EffectOf(i) ==
    create_file_from_cache_file(all_files, {}, <<>>, FileOf(entries[i], i))

\* C13: a second run over the same directory with the same flags, on the
\* tree the first run left (complete, or partly written when the first run
\* was interrupted), raises no error and ends with the statistics and the
\* output tree of one complete run: the counts of the files' outcomes, the
\* directories and the files of the decoded and included records, each file
\* holding its payload.
C13_RerunSame ==
    runs = 2 =>
        /\ pc # "raised"
        /\ pc = "report" =>
             /\ C9_StatsOrderIndependent
             /\ dirs = UNION {EffectOf(i).mk : i \in Regular}
             /\ DOMAIN out_files = {Destination(i) : i \in Regular} \ {<<>>}
             /\ \A i \in Regular :
                  EffectOf(i).wr # <<>> => out_files[Destination(i)] = EffectOf(i).wr[2]

=============================================================================
